---- MODULE Spec2Model ----
(***************************************************************************)
(* Model of the population-dynamics simulator (src/src/lib.rs): the        *)
(* Population state, Population::new, step(), increment_time() and the     *)
(* simulate() loop.                                                        *)
(*                                                                         *)
(* f64 values are modelled in fixed point with three decimals: the integer *)
(* n stands for n/ONE, so 1000 is 1.0 and 500 is 0.5.  A division whose    *)
(* result is not a number (0/0, x/0) is kept as such (see FDiv), since the *)
(* code's behaviour on those values is what several properties are about.  *)
(* Vector positions are 1-based here and 0-based in the code; individual   *)
(* ids keep the code's values (0-based).                                   *)
(***************************************************************************)
EXTENDS Integers, Sequences, FiniteSets, TLC

VARIABLES
    species_list,   \* Population.species_list
    individuals,    \* Population.individuals
    size,           \* Population.size
    distances,      \* Population.distances (size x size matrix, rows of columns)
    history,        \* Population.history.checkpoints
    t,              \* Population.t
    max_t,          \* the horizon handed to simulate()
    pc,             \* position in simulate(): "loop", "stepped", "timed", "done", "panicked";
                    \* of the worker also "main", "idle"; of the unit test "test"
    checkpoint,     \* simulate()'s local `checkpoint` (returned by step())
    p_total,        \* simulate()'s local `p_total` (returned by step())
    chosen,         \* the locals of the last choose_event call
    panic,          \* "none", or the panic that ended the run
    initial_size,   \* size right after Population::new
    births,         \* number of execute_birth calls so far
    deaths,         \* number of execute_death calls so far
    issued,         \* every id handed to Individual::new so far, in order
    steps,          \* number of step() calls so far
    first_run,      \* the checkpoints of an earlier run on the same input, <<>> when none
    posted,         \* the worker's post_message calls so far, in order
    made            \* the call a unit test makes (Individual::new, distance): <<>>, or its
                    \* arguments and result

vars == <<species_list, individuals, size, distances, history, t, max_t, pc,
          checkpoint, p_total, chosen, panic, initial_size, births, deaths, issued, steps,
          first_run, posted, made>>

(***************************************************************************)
(* Fixed-point arithmetic                                                  *)
(***************************************************************************)
ONE == 1000

PI == 3142

MaxSteps == 3

Abs(a) == IF a < 0 THEN -a ELSE a

Min(a, b) == IF a < b THEN a ELSE b

\* the vector holding f[1], ..., f[Len(f)], each element computed once
Vec(f) == SubSeq(f, 1, Len(f))

\* a * b on fixed-point values
Mul(a, b) == (a * b) \div ONE

\* a / b on fixed-point values, b # 0
Div(a, b) == (a * ONE) \div b

RECURSIVE ISqrtIter(_, _, _)
ISqrtIter(n, lo, hi) ==
    IF lo >= hi THEN lo
    ELSE LET mid == (lo + hi + 1) \div 2
         IN IF mid * mid <= n THEN ISqrtIter(n, mid, hi)
                              ELSE ISqrtIter(n, lo, mid - 1)

\* f64::sqrt on a fixed-point value
Sqrt(a) == ISqrtIter(a * ONE, 0, a + ONE)

RECURSIVE ExpSeries(_, _, _)
\* sum of the terms x^k/k! from `term` (the k-1 th) on
ExpSeries(x, term, k) ==
    IF term = 0 THEN 0
    ELSE term + ExpSeries(x, ((term \div k) * x) \div ONE, k + 1)

\* f64::exp of -x for a fixed-point x >= 0
ExpNeg(x) == IF x >= 8 * ONE THEN 0 ELSE (ONE * ONE) \div ExpSeries(x, ONE, 1)

RECURSIVE LnSeries(_, _, _)
\* sum of the terms g^k/k from `pow` (g^k) on
LnSeries(g, pow, k) ==
    IF pow = 0 THEN 0
    ELSE (pow \div k) + LnSeries(g, Mul(pow, g), k + 1)

\* -(f64::ln(x)) for a fixed-point x in (0, 1]
NegLn(x) == LnSeries(ONE - x, ONE - x, 1)

\* f64 division where the divisor may be 0: 0/0 is NaN, x/0 is infinite
FDiv(a, b) ==
    IF b # 0 THEN [kind |-> "num", v |-> Div(a, b)]
    ELSE IF a = 0 THEN [kind |-> "nan", v |-> 0]
    ELSE [kind |-> "inf", v |-> 0]

\* `c as usize` for an f64 c: saturating, truncating
AsUsize(c) == IF c < 0 THEN 0 ELSE c \div ONE

\* An f64 resolves values near 0 far more finely than values near 1.0: a
\* Normal sample and its remainder are kept in steps of 1/(ONE * Fine), a
\* coordinate of [0.5, 1.0] in steps of 1/ONE.
Fine == 4

\* Rust's `a % 1.0` on f64, a in steps of 1/(ONE * Fine): exact, and the result
\* has the sign of a
Rem1(a) == IF a >= 0 THEN a % (ONE * Fine) ELSE -((-a) % (ONE * Fine))

\* the f64 nearest to a value f >= 0 given in steps of 1/(ONE * Fine), as a
\* multiple of 1/ONE: round to nearest, ties to even
RoundToNearest(f) ==
    LET q == f \div Fine
        r == f % Fine
    IN IF 2 * r < Fine THEN q
       ELSE IF 2 * r > Fine THEN q + 1
       ELSE IF q % 2 = 0 THEN q ELSE q + 1

(***************************************************************************)
(* Inputs: the species lists and horizons a run is started with, and the   *)
(* values the random source can return                                     *)
(***************************************************************************)
\* struct Species, all rates and kernel parameters 0
DefaultSpecies ==
    [id |-> 0, b0 |-> 0, b1 |-> 0, c1 |-> 0, d0 |-> 0, d1 |-> 0,
     mbrmax |-> 0, mbsd |-> 0, mintegral |-> 0,
     move_radius_max |-> 0, move_std |-> 0,
     birth_radius_max |-> 0, birth_std |-> 0,
     death_radius_max |-> 0, death_std |-> 0]

\* one individual, no event possible
Inert == [DefaultSpecies EXCEPT !.c1 = ONE]

\* one individual whose only positive rate is the move rate
Mover == [DefaultSpecies EXCEPT !.c1 = ONE, !.mintegral = ONE]

\* a negative count
NegCount == [DefaultSpecies EXCEPT !.c1 = -ONE, !.b0 = ONE, !.d0 = ONE]

\* a negative kernel radius and a negative kernel std
NegKernel == [DefaultSpecies EXCEPT !.c1 = ONE, !.d0 = ONE, !.b1 = ONE,
                                    !.birth_radius_max = -500, !.birth_std = -500]

\* one individual that gives birth and dies, children scattered around the parent,
\* death rate raised by neighbours within 0.6
Basic == [DefaultSpecies EXCEPT !.c1 = ONE, !.b0 = ONE, !.d0 = ONE, !.mbsd = 500,
                                !.d1 = ONE, !.death_radius_max = 600, !.death_std = 500]

\* species 0 of the two-species run: births only, children at the parent's place,
\* birth rate raised by every individual of the habitat (radius above 1); a
\* death kernel whose radius is so small that its norm evaluates to 0
Grower == [DefaultSpecies EXCEPT !.c1 = ONE, !.b0 = ONE, !.b1 = 500,
                                 !.birth_radius_max = 1500, !.birth_std = 500,
                                 !.d1 = ONE, !.death_radius_max = 1, !.death_std = 500]

\* species 1 of the two-species run: deaths and moves only; a death kernel of
\* std 0 (norm undefined) with neighbours inside its radius
Fader == [DefaultSpecies EXCEPT !.id = 1, !.c1 = ONE, !.d0 = ONE, !.mintegral = 500,
                                !.d1 = ONE, !.death_radius_max = 600, !.death_std = 0]

\* WorkerMessageReceived.species_list
SpeciesLists ==
    { <<>>, <<Inert>>, <<Mover>>, <<NegCount>>, <<NegKernel>>, <<Basic>>,
      <<Grower, Fader>>, <<Fader, Grower>> }

\* WorkerMessageReceived.max_t
Horizons == { 0, 300 }

\* rng.gen::<f64>() for a coordinate: a value of [0, 1)
Coords == { 0, 500 }

\* rng.gen::<f64>() in increment_time: a value of [0, 1)
UDraws == { 0, 250, 750 }

\* Normal::new(mean, std_dev).sample(rng) - mean, in steps of 1/(ONE * Fine):
\* nothing but 0 when std_dev is 0; otherwise -1.5, 0.5 and a negative amount
\* below the resolution of a coordinate
Perturbations(std_dev) ==
    IF std_dev = 0 THEN { 0 } ELSE { -1500 * Fine, -1, 500 * Fine }

\* Normal::new(mean, std_dev).sample(rng) for the perturbation drawn, in steps
\* of 1/(ONE * Fine): mean + perturbation as an f64, exact below 1/ONE in
\* magnitude and rounded to a multiple of 1/ONE otherwise
NormalSample(mean, perturbation) ==
    LET sum == mean * Fine + perturbation
    IN IF Abs(sum) < Fine THEN sum
       ELSE IF sum > 0 THEN RoundToNearest(sum) * Fine
       ELSE -(RoundToNearest(-sum) * Fine)

(***************************************************************************)
(* struct Individual                                                       *)
(***************************************************************************)
\* Individual::new with the intensities of lines 73-74 started at the species'
\* base rates
IndividualNewAtBaseRates(id, species, x_coord, y_coord) ==
    [id |-> id, species |-> species, x_coord |-> x_coord, y_coord |-> y_coord,
     p_birth |-> species.b0, p_death |-> species.d0, p_move |-> 0,
     birth_neighbor_weight |-> 0, death_neighbor_weight |-> 0]

IndividualNew(id, species, x_coord, y_coord) ==
    [id |-> id, species |-> species, x_coord |-> x_coord, y_coord |-> y_coord,
     p_birth |-> 0, p_death |-> 0, p_move |-> 0,
     birth_neighbor_weight |-> 0, death_neighbor_weight |-> 0]

\* lines 84-85 without the wrap-around: the plain difference of the coordinates
AxisDeltaPlain(a, b) == Abs(a - b)

\* lines 84-85 (and 87-88): the delta of one axis
AxisDelta(a, b) ==
    LET inside_delta == Abs(a - b)
    IN Min(inside_delta, ONE - inside_delta)

Distance(self, other) ==
    LET delta_x == AxisDelta(self.x_coord, other.x_coord)
        delta_y == AxisDelta(self.y_coord, other.y_coord)
    IN Sqrt(Mul(delta_x, delta_x) + Mul(delta_y, delta_y))

IndividualUpdateProbabilities(self) ==
    [self EXCEPT !.p_birth = self.species.b0 + self.birth_neighbor_weight,
                 !.p_death = self.species.d0 + self.death_neighbor_weight,
                 !.p_move = self.species.mintegral]

(***************************************************************************)
(* Population::new                                                         *)
(***************************************************************************)
RECURSIVE Repeat(_, _)
Repeat(x, n) == IF n <= 0 THEN <<>> ELSE <<x>> \o Repeat(x, n - 1)

RECURSIVE InitialSpecies(_)
\* the species of the individuals of lines 132-138, in creation order
InitialSpecies(list) ==
    IF list = <<>> THEN <<>>
    ELSE Repeat(Head(list), AsUsize(Head(list).c1)) \o InitialSpecies(Tail(list))

\* the matrix of lines 141-148: ones, then the distance of every pair of
\* different ids, written at [first.id, seccond.id]
InitialDistances(inds) ==
    Vec([i \in 1..Len(inds) |->
        Vec([j \in 1..Len(inds) |->
            IF \E a, b \in 1..Len(inds) :
                  inds[a].id + 1 = i /\ inds[b].id + 1 = j /\ inds[a].id # inds[b].id
            THEN LET a == CHOOSE a \in 1..Len(inds) : inds[a].id + 1 = i
                     b == CHOOSE b \in 1..Len(inds) : inds[b].id + 1 = j
                 IN Distance(inds[a], inds[b])
            ELSE ONE])])

\* Population::new(list), `coords` holding the two rng.gen() draws of each individual
PopulationNew(list, coords) ==
    LET sp == InitialSpecies(list)
        inds == Vec([k \in 1..Len(sp) |->
                    IndividualNew(k - 1, sp[k], coords[k][1], coords[k][2])])
    IN [species_list |-> list,
        individuals |-> inds,
        size |-> Len(sp),
        distances |-> InitialDistances(inds),
        history |-> << [time |-> 0, species_individuals |-> <<>>] >>,
        t |-> 0]

(***************************************************************************)
(* Neighbour weights and intensities                                       *)
(***************************************************************************)
\* the `radius`, `var` and `effect` of an individual for an event (lines 180-204)
Radius(x, event) ==
    IF event = "Birth" THEN x.species.birth_radius_max ELSE x.species.death_radius_max

Var(x, event) ==
    IF event = "Birth" THEN Mul(x.species.birth_std, x.species.birth_std)
                       ELSE Mul(x.species.death_std, x.species.death_std)

Effect(x, event) == IF event = "Birth" THEN x.species.b1 ELSE x.species.d1

\* the `norm` of lines 206-212
Norm(r, v) ==
    IF v = 0 THEN 0
    ELSE Mul(Mul(2 * v, PI), ONE - ExpNeg(Div(Mul(r, r), 2 * v)))

\* lines 215-216 returning 1.0 instead of 0.0 for a masked-in entry whose
\* variance or norm is 0
WeightEntryUnnormalised(d, r, v) ==
    LET n == Norm(r, v)
        m == d < r
    IN IF ~m THEN 0
       ELSE IF v = 0 \/ n = 0 THEN ONE
       ELSE Div(ExpNeg(Div(Mul(d, d), 2 * v)), n)

\* one entry of `weight_full` (lines 213-221): d the distance, m the mask d < r
WeightEntry(d, r, v) ==
    LET n == Norm(r, v)
        m == d < r
    IN IF v = 0 \/ n = 0 \/ ~m THEN 0
       ELSE Div(ExpNeg(Div(Mul(d, d), 2 * v)), n)

RECURSIVE SumTo(_, _)
\* f[1] + ... + f[n]
SumTo(f, n) == IF n = 0 THEN 0 ELSE SumTo(f, n - 1) + f[n]

\* compute_neighbor_weights: the row sums of weight_full times the effect
ComputeNeighborWeights(inds, dist, sz, event) ==
    Vec([i \in 1..Len(inds) |->
        LET row == Vec([j \in 1..sz |->
                       WeightEntry(dist[i][j], Radius(inds[i], event), Var(inds[i], event))])
        IN Mul(SumTo(row, sz), Effect(inds[i], event))])

\* update_neighbor_weights
UpdateNeighborWeights(inds, weight, event) ==
    Vec([i \in 1..Len(inds) |->
        IF event = "Birth" THEN [inds[i] EXCEPT !.birth_neighbor_weight = weight[i]]
                           ELSE [inds[i] EXCEPT !.death_neighbor_weight = weight[i]]])

\* Population::update_probabilities
UpdateProbabilities(inds) ==
    Vec([i \in 1..Len(inds) |-> IndividualUpdateProbabilities(inds[i])])

\* lines 389-393 with update_probabilities called before the neighbour weights
\* are recomputed: the intensities are those of the weights of the step before
RefreshIntensitiesFirst(inds, dist, sz) ==
    LET p == UpdateProbabilities(inds)
        b == UpdateNeighborWeights(p, ComputeNeighborWeights(p, dist, sz, "Birth"), "Birth")
    IN UpdateNeighborWeights(b, ComputeNeighborWeights(b, dist, sz, "Death"), "Death")

\* lines 389-393 of step(): both weights, then the intensities
Refresh(inds, dist, sz) ==
    LET b == UpdateNeighborWeights(inds, ComputeNeighborWeights(inds, dist, sz, "Birth"), "Birth")
        d == UpdateNeighborWeights(b, ComputeNeighborWeights(b, dist, sz, "Death"), "Death")
    IN UpdateProbabilities(d)

(***************************************************************************)
(* choose_event and weighted_sample                                        *)
(***************************************************************************)
\* WeightedIndex::new(weights): "Ok" or the error it returns; a weight that is
\* not >= 0 (NaN included) is invalid, an infinite total cannot be sampled
WeightedIndexNew(weights) ==
    IF Len(weights) = 0 THEN "NoItem"
    ELSE IF \E i \in 1..Len(weights) :
                weights[i].kind = "nan" \/ (weights[i].kind = "num" /\ weights[i].v < 0)
    THEN "InvalidWeight"
    ELSE IF \E i \in 1..Len(weights) : weights[i].kind = "inf" THEN "NonFinite"
    ELSE IF \A i \in 1..Len(weights) : weights[i].v = 0 THEN "AllWeightsZero"
    ELSE "Ok"

\* the positions dist.sample(rng) can return: those of positive weight
SampleSet(weights) == { i \in 1..Len(weights) : weights[i].kind = "num" /\ weights[i].v > 0 }

\* weighted_sample(choices, weights, rng): {} when the unwrap panics
WeightedSample(choices, weights) ==
    IF WeightedIndexNew(weights) # "Ok" THEN {}
    ELSE { choices[i] : i \in SampleSet(weights) }

PBirthSum(inds) == SumTo(Vec([i \in 1..Len(inds) |-> inds[i].p_birth]), Len(inds))

PDeathSum(inds) == SumTo(Vec([i \in 1..Len(inds) |-> inds[i].p_death]), Len(inds))

PMoveSum(inds) == SumTo(Vec([i \in 1..Len(inds) |-> inds[i].p_move]), Len(inds))

\* line 319 without its last term: the move rates are left out of p_total
PTotalWithoutMoves(inds) == PBirthSum(inds) + PDeathSum(inds)

PTotal(inds) == PBirthSum(inds) + PDeathSum(inds) + PMoveSum(inds)

\* line 320 with the move slot dispatched to Birth instead of Death
EventChoicesMoveAsBirth == << "Birth", "Death", "Birth" >>

\* the `choices` and `weights` of lines 320-325
EventChoices == << "Birth", "Death", "Death" >>

EventWeights(inds) ==
    << FDiv(PBirthSum(inds), PTotal(inds)),
       FDiv(PDeathSum(inds), PTotal(inds)),
       FDiv(PMoveSum(inds), PTotal(inds)) >>

\* the actor draw with the same weight for every individual, whatever its
\* intensity
ActorWeightsUniform(inds, event) ==
    Vec([i \in 1..Len(inds) |-> FDiv(ONE, Len(inds) * ONE)])

\* the weights of the actor draw (lines 328-352)
ActorWeights(inds, event) ==
    Vec([i \in 1..Len(inds) |->
        IF event = "Birth" THEN FDiv(inds[i].p_birth, PBirthSum(inds))
                           ELSE FDiv(inds[i].p_death, PDeathSum(inds))])

\* lines 353-357: the first position holding an individual equal to the chosen one
Position(inds, x) ==
    CHOOSE i \in 1..Len(inds) : inds[i] = x /\ \A j \in 1..(i - 1) : inds[j] # x

\* choose_event: every (event, position, p_total) it can return; a draw whose
\* unwrap panics gives a record with panicked set, naming the draw that failed
ChooseEvent(inds) ==
    LET events == WeightedSample(EventChoices, EventWeights(inds))
        sums == [p_birth_sum |-> PBirthSum(inds), p_death_sum |-> PDeathSum(inds),
                 p_move_sum |-> PMoveSum(inds), p_total |-> PTotal(inds)]
        failed(at, ev) ==
            [panicked |-> TRUE, at |-> at, event |-> ev, individual_id |-> 0,
             sums |-> sums]
    IN IF events = {} THEN { failed("event", "None") }
       ELSE UNION { LET actors == WeightedSample(inds, ActorWeights(inds, ev))
                    IN IF actors = {} THEN { failed("individual", ev) }
                       ELSE { [panicked |-> FALSE, at |-> "None", event |-> ev,
                               individual_id |-> Position(inds, a),
                               sums |-> sums] : a \in actors }
                  : ev \in events }

(***************************************************************************)
(* execute_birth, execute_death, get_checkpoint                            *)
(***************************************************************************)
\* lines 258-271: the sample taken modulo 1.0, plus 1.0 when negative
WrapCoord(sample) ==
    LET c == Rem1(sample)
    IN IF c < 0 THEN RoundToNearest(c + ONE * Fine) ELSE RoundToNearest(c)

RECURSIVE MaxId(_)
\* line 273, for a non-empty vector
MaxId(inds) ==
    IF Len(inds) = 1 THEN inds[1].id
    ELSE LET m == MaxId(SubSeq(inds, 2, Len(inds)))
         IN IF inds[1].id > m THEN inds[1].id ELSE m

\* execute_birth with line 281 measuring from the parent instead of the child
ExecuteBirthParentDistances(inds, dist, sz, parent_id, sample_x, sample_y) ==
    LET parent == inds[parent_id]
        child == IndividualNew(MaxId(inds) + 1, parent.species,
                               WrapCoord(sample_x), WrapCoord(sample_y))
        child_distances == Vec([i \in 1..Len(inds) |-> Distance(inds[i], parent)])
    IN [individuals |-> Append(inds, child),
        distances |->
            Vec([i \in 1..(sz + 1) |->
                Vec([j \in 1..(sz + 1) |->
                    IF i <= sz /\ j <= sz THEN dist[i][j]
                    ELSE IF i = sz + 1 /\ j <= sz THEN child_distances[j]
                    ELSE IF i <= sz /\ j = sz + 1 THEN child_distances[i]
                    ELSE ONE])]),
        size |-> sz + 1]

\* execute_birth also writing the child's coordinates back to the parent
ExecuteBirthMovingParent(inds, dist, sz, parent_id, sample_x, sample_y) ==
    LET child == IndividualNew(MaxId(inds) + 1, inds[parent_id].species,
                               WrapCoord(sample_x), WrapCoord(sample_y))
        moved == [inds EXCEPT ![parent_id].x_coord = child.x_coord,
                              ![parent_id].y_coord = child.y_coord]
        child_distances == Vec([i \in 1..Len(inds) |-> Distance(inds[i], child)])
    IN [individuals |-> Append(moved, child),
        distances |->
            Vec([i \in 1..(sz + 1) |->
                Vec([j \in 1..(sz + 1) |->
                    IF i <= sz /\ j <= sz THEN dist[i][j]
                    ELSE IF i = sz + 1 /\ j <= sz THEN child_distances[j]
                    ELSE IF i <= sz /\ j = sz + 1 THEN child_distances[i]
                    ELSE ONE])]),
        size |-> sz + 1]

\* execute_birth with line 273 taking the child's id from the number of live
\* individuals instead of the largest live id
ExecuteBirthIdFromSize(inds, dist, sz, parent_id, sample_x, sample_y) ==
    LET child == IndividualNew(sz, inds[parent_id].species,
                               WrapCoord(sample_x), WrapCoord(sample_y))
        child_distances == Vec([i \in 1..Len(inds) |-> Distance(inds[i], child)])
    IN [individuals |-> Append(inds, child),
        distances |->
            Vec([i \in 1..(sz + 1) |->
                Vec([j \in 1..(sz + 1) |->
                    IF i <= sz /\ j <= sz THEN dist[i][j]
                    ELSE IF i = sz + 1 /\ j <= sz THEN child_distances[j]
                    ELSE IF i <= sz /\ j = sz + 1 THEN child_distances[i]
                    ELSE ONE])]),
        size |-> sz + 1]

\* execute_birth(parent_id): sample_x and sample_y the two Normal samples, in
\* steps of 1/(ONE * Fine)
ExecuteBirth(inds, dist, sz, parent_id, sample_x, sample_y) ==
    LET parent == inds[parent_id]
        child == IndividualNew(MaxId(inds) + 1, parent.species,
                               WrapCoord(sample_x), WrapCoord(sample_y))
        child_distances == Vec([i \in 1..Len(inds) |-> Distance(inds[i], child)])
        updated_distances ==
            Vec([i \in 1..(sz + 1) |->
                Vec([j \in 1..(sz + 1) |->
                    IF i <= sz /\ j <= sz THEN dist[i][j]
                    ELSE IF i = sz + 1 /\ j <= sz THEN child_distances[j]
                    ELSE IF i <= sz /\ j = sz + 1 THEN child_distances[i]
                    ELSE ONE])])
    IN [individuals |-> Append(inds, child),
        distances |-> updated_distances,
        size |-> sz + 1]

\* s without its element at position k
RemoveAt(s, k) == SubSeq(s, 1, k - 1) \o SubSeq(s, k + 1, Len(s))

\* execute_death without line 304 (size is not decremented)
ExecuteDeathKeepsSize(inds, dist, sz, deceased_id) ==
    LET rows == RemoveAt(dist, deceased_id)
    IN [individuals |-> RemoveAt(inds, deceased_id),
        distances |-> Vec([i \in 1..Len(rows) |-> RemoveAt(rows[i], deceased_id)]),
        size |-> sz]

\* execute_death with line 303 calling swap_remove: the last individual takes
\* the place of the deceased
ExecuteDeathSwapRemove(inds, dist, sz, deceased_id) ==
    LET rows == RemoveAt(dist, deceased_id)
    IN [individuals |->
            IF deceased_id = Len(inds) THEN RemoveAt(inds, deceased_id)
            ELSE RemoveAt([inds EXCEPT ![deceased_id] = inds[Len(inds)]], Len(inds)),
        distances |-> Vec([i \in 1..Len(rows) |-> RemoveAt(rows[i], deceased_id)]),
        size |-> sz - 1]

\* execute_death with line 302 removing the last column instead of the column
\* of the deceased
ExecuteDeathLastColumn(inds, dist, sz, deceased_id) ==
    LET rows == RemoveAt(dist, deceased_id)
    IN [individuals |-> RemoveAt(inds, deceased_id),
        distances |-> Vec([i \in 1..Len(rows) |-> RemoveAt(rows[i], Len(rows[i]))]),
        size |-> sz - 1]

\* execute_death without the second remove_index of line 302: the row of the
\* deceased is removed, its column stays
ExecuteDeathRowOnly(inds, dist, sz, deceased_id) ==
    [individuals |-> RemoveAt(inds, deceased_id),
     distances |-> RemoveAt(dist, deceased_id),
     size |-> sz - 1]

\* execute_death(deceased_id)
ExecuteDeath(inds, dist, sz, deceased_id) ==
    LET rows == RemoveAt(dist, deceased_id)
    IN [individuals |-> RemoveAt(inds, deceased_id),
        distances |-> Vec([i \in 1..Len(rows) |-> RemoveAt(rows[i], deceased_id)]),
        size |-> sz - 1]

\* get_checkpoint with the filter of line 368 comparing with the species'
\* place in species_list instead of its id
GetCheckpointBySlot(list, inds, time) ==
    [time |-> time,
     species_individuals |->
        Vec([k \in 1..Len(list) |->
            LET Same(x) == x.species.id = k - 1
                of == SelectSeq(inds, Same)
            IN << Vec([i \in 1..Len(of) |-> of[i].x_coord]),
                  Vec([i \in 1..Len(of) |-> of[i].y_coord]) >>])]

\* get_checkpoint: per species of species_list, the coordinates of the
\* individuals whose species id is that species' id
GetCheckpoint(list, inds, time) ==
    [time |-> time,
     species_individuals |->
        Vec([k \in 1..Len(list) |->
            LET Same(x) == x.species.id = list[k].id
                of == SelectSeq(inds, Same)
            IN << Vec([i \in 1..Len(of) |-> of[i].x_coord]),
                  Vec([i \in 1..Len(of) |-> of[i].y_coord]) >>])]

(***************************************************************************)
(* The run: Population::new, then the loop of simulate()                   *)
(***************************************************************************)
NoChoice ==
    [panicked |-> FALSE, at |-> "None", event |-> "None", individual_id |-> 0,
     sums |-> [p_birth_sum |-> 0, p_death_sum |-> 0, p_move_sum |-> 0, p_total |-> 0]]

\* the state Population::new(list) leaves, simulate(horizon) about to start
Start(list, horizon, coords) ==
    LET pop == PopulationNew(list, coords)
    IN /\ species_list = pop.species_list
       /\ individuals = pop.individuals
       /\ size = pop.size
       /\ distances = pop.distances
       /\ history = pop.history
       /\ t = pop.t
       /\ max_t = horizon
       /\ pc = "loop"
       /\ checkpoint = [time |-> 0, species_individuals |-> <<>>]
       /\ p_total = 0
       /\ chosen = NoChoice
       /\ panic = "none"
       /\ initial_size = pop.size
       /\ births = 0
       /\ deaths = 0
       /\ issued = Vec([k \in 1..pop.size |-> pop.individuals[k].id])
       /\ steps = 0
       /\ first_run = <<>>
       /\ posted = <<>>
       /\ made = <<>>

InitialCoords(list) ==
    [1..Len(InitialSpecies(list)) -> Coords \X Coords]

Init ==
    \E list \in SpeciesLists, horizon \in Horizons :
        \E coords \in InitialCoords(list) : Start(list, horizon, coords)

\* the loop condition of line 417 with <= in place of <
LoopConditionInclusive(now, horizon) == now <= horizon

\* the loop condition of line 417 (worker.rs line 21): self.t < max_t
LoopCondition(now, horizon) == now < horizon

\* step(), called at line 428 while t < max_t
Step ==
    /\ pc = "loop"
    /\ LoopCondition(t, max_t)
    /\ steps < MaxSteps
    /\ steps' = steps + 1
    /\ \E inds \in { Refresh(individuals, distances, size) } :
         \E c \in ChooseEvent(inds) :
            /\ chosen' = c
            /\ \/ /\ c.panicked
                  /\ individuals' = inds
                  /\ pc' = "panicked"
                  /\ panic' = "weighted_sample"
                  /\ UNCHANGED <<size, distances, checkpoint, p_total, births, deaths, issued>>
               \/ /\ ~c.panicked
                  /\ c.event = "Birth"
                  /\ \E dx, dy \in Perturbations(inds[c.individual_id].species.mbsd) :
                       \E new \in { ExecuteBirth(inds, distances, size, c.individual_id,
                                        NormalSample(inds[c.individual_id].x_coord, dx),
                                        NormalSample(inds[c.individual_id].y_coord, dy)) } :
                           /\ individuals' = new.individuals
                           /\ distances' = new.distances
                           /\ size' = new.size
                           /\ checkpoint' = GetCheckpoint(species_list, new.individuals, t)
                           /\ issued' = Append(issued, new.individuals[new.size].id)
                  /\ births' = births + 1
                  /\ p_total' = c.sums.p_total
                  /\ pc' = "stepped"
                  /\ UNCHANGED <<deaths, panic>>
               \/ /\ ~c.panicked
                  /\ c.event = "Death"
                  /\ \E new \in { ExecuteDeath(inds, distances, size, c.individual_id) } :
                        /\ individuals' = new.individuals
                        /\ distances' = new.distances
                        /\ size' = new.size
                        /\ checkpoint' = GetCheckpoint(species_list, new.individuals, t)
                  /\ deaths' = deaths + 1
                  /\ p_total' = c.sums.p_total
                  /\ pc' = "stepped"
                  /\ UNCHANGED <<births, issued, panic>>
    /\ UNCHANGED <<species_list, history, t, max_t, initial_size, first_run, posted, made>>

\* the delta_t of line 406 for the draw u of rng.gen::<f64>()
DeltaT(total, u) == Mul(Div(ONE, total), NegLn(ONE - u))

\* line 408 subtracting delta_t from t
RewoundTime(now, delta_t) == now - delta_t

\* line 408: self.t += delta_t
AdvancedTime(now, delta_t) == now + delta_t

\* increment_time also pushing the caller's checkpoint onto history
IncrementTimeAndRecord ==
    /\ pc = "stepped"
    /\ \E u \in UDraws :
          IF DeltaT(p_total, u) > 0
          THEN /\ t' = AdvancedTime(t, DeltaT(p_total, u))
               /\ history' = Append(history, checkpoint)
               /\ pc' = "timed"
               /\ panic' = panic
          ELSE /\ t' = t
               /\ history' = history
               /\ pc' = "panicked"
               /\ panic' = "assert delta_t > 0.0"
    /\ UNCHANGED <<species_list, individuals, size, distances, max_t, checkpoint,
                   p_total, chosen, initial_size, births, deaths, issued, steps, first_run,
                   posted, made>>

\* increment_time(p_total), called at line 430
IncrementTime ==
    /\ pc = "stepped"
    /\ \E u \in UDraws :
          IF DeltaT(p_total, u) > 0
          THEN /\ t' = AdvancedTime(t, DeltaT(p_total, u))
               /\ pc' = "timed"
               /\ panic' = panic
          ELSE /\ t' = t
               /\ pc' = "panicked"
               /\ panic' = "assert delta_t > 0.0"
    /\ UNCHANGED <<species_list, individuals, size, distances, history, max_t, checkpoint,
                   p_total, chosen, initial_size, births, deaths, issued, steps, first_run,
                   posted, made>>

\* line 434: self.history.checkpoints.push(checkpoint)
PushCheckpoint ==
    /\ pc = "timed"
    /\ history' = Append(history, checkpoint)
    /\ pc' = "loop"
    /\ UNCHANGED <<species_list, individuals, size, distances, t, max_t, checkpoint,
                   p_total, chosen, panic, initial_size, births, deaths, issued, steps,
                   first_run, posted, made>>

\* the loop condition of line 417 found false: simulate() returns
Finish ==
    /\ pc = "loop"
    /\ ~LoopCondition(t, max_t)
    /\ pc' = "done"
    /\ UNCHANGED <<species_list, individuals, size, distances, history, t, max_t, checkpoint,
                   p_total, chosen, panic, initial_size, births, deaths, issued, steps,
                   first_run, posted, made>>

Next == Step \/ IncrementTime \/ PushCheckpoint \/ Finish

Spec == Init /\ [][Next]_vars

(***************************************************************************)
(* Two runs on the same input: the run is started again on the species     *)
(* list and horizon of a run that has returned, the random source drawing  *)
(* anew (rand::thread_rng() takes no seed)                                 *)
(***************************************************************************)
TwinSpeciesLists == { <<Mover>>, <<Fader>>, <<Grower>> }

InitTwin ==
    \E list \in TwinSpeciesLists, horizon \in Horizons :
        \E coords \in InitialCoords(list) : Start(list, horizon, coords)

\* a second Population::new(species_list) and simulate(max_t)
Rerun ==
    /\ pc = "done"
    /\ first_run = <<>>
    /\ first_run' = history
    /\ \E coords \in InitialCoords(species_list) :
         \E pop \in { PopulationNew(species_list, coords) } :
            /\ individuals' = pop.individuals
            /\ size' = pop.size
            /\ distances' = pop.distances
            /\ history' = pop.history
            /\ t' = pop.t
            /\ initial_size' = pop.size
            /\ issued' = Vec([k \in 1..pop.size |-> pop.individuals[k].id])
    /\ pc' = "loop"
    /\ checkpoint' = [time |-> 0, species_individuals |-> <<>>]
    /\ p_total' = 0
    /\ chosen' = NoChoice
    /\ panic' = "none"
    /\ births' = 0
    /\ deaths' = 0
    /\ steps' = 0
    /\ UNCHANGED <<species_list, max_t, posted, made>>

NextTwin == Next \/ Rerun

SpecTwin == InitTwin /\ [][NextTwin]_vars

(***************************************************************************)
(* The worker (src/bin/worker.rs): main posts INITIALIZED once the message  *)
(* handler is installed; the handler builds a Population per message, runs  *)
(* the loop of simulate() posting every checkpoint as PENDING, then posts   *)
(* COMPLETE.  A panic inside the handler ends it where it is.  Before the   *)
(* first message the Population variables hold the values of an empty one.  *)
(***************************************************************************)
MaxRequests == 2

WorkerSpeciesLists == { <<>>, <<Mover>>, <<Fader>>, <<Grower>> }

EmptyCheckpoint == [time |-> 0, species_individuals |-> <<>>]

WorkerResponse(status, cp) == [status |-> status, checkpoint |-> cp]

\* the number of COMPLETE messages of a message sequence
Completed(msgs) == Cardinality({ i \in 1..Len(msgs) : msgs[i].status = "COMPLETE" })

\* compute_initial_distances(), called at worker.rs line 19: the distance matrix
\* of the initial individuals, built anew
ComputeInitialDistances(pop) ==
    [pop EXCEPT !.distances = InitialDistances(pop.individuals)]

\* the values the Population variables hold while no Population is built
NoPopulation ==
    /\ species_list = <<>>
    /\ individuals = <<>>
    /\ size = 0
    /\ distances = <<>>
    /\ history = << EmptyCheckpoint >>
    /\ t = 0
    /\ max_t = 0
    /\ checkpoint = EmptyCheckpoint
    /\ p_total = 0
    /\ chosen = NoChoice
    /\ panic = "none"
    /\ initial_size = 0
    /\ births = 0
    /\ deaths = 0
    /\ issued = <<>>
    /\ steps = 0
    /\ first_run = <<>>

InitWorker ==
    /\ NoPopulation
    /\ pc = "main"
    /\ posted = <<>>
    /\ made = <<>>

\* worker.rs lines 55-67: the INITIALIZED message of main
PostInitialized ==
    /\ pc = "main"
    /\ posted' = Append(posted, WorkerResponse("INITIALIZED", EmptyCheckpoint))
    /\ pc' = "idle"
    /\ UNCHANGED <<species_list, individuals, size, distances, history, t, max_t, checkpoint,
                   p_total, chosen, panic, initial_size, births, deaths, issued, steps,
                   first_run, made>>

\* worker.rs lines 12-19: a message is received and its Population built
OnMessage ==
    /\ pc = "idle"
    /\ Completed(posted) < MaxRequests
    /\ \E list \in WorkerSpeciesLists, horizon \in Horizons :
         \E coords \in InitialCoords(list) :
            \E pop \in { ComputeInitialDistances(PopulationNew(list, coords)) } :
                /\ species_list' = pop.species_list
                /\ max_t' = horizon
                /\ individuals' = pop.individuals
                /\ size' = pop.size
                /\ distances' = pop.distances
                /\ history' = pop.history
                /\ t' = pop.t
                /\ initial_size' = pop.size
                /\ issued' = Vec([k \in 1..pop.size |-> pop.individuals[k].id])
    /\ pc' = "loop"
    /\ checkpoint' = EmptyCheckpoint
    /\ p_total' = 0
    /\ chosen' = NoChoice
    /\ panic' = "none"
    /\ births' = 0
    /\ deaths' = 0
    /\ steps' = 0
    /\ UNCHANGED <<first_run, posted, made>>

\* worker.rs lines 23-33: the checkpoint is pushed and posted as PENDING
PostPending ==
    /\ pc = "timed"
    /\ history' = Append(history, checkpoint)
    /\ posted' = Append(posted, WorkerResponse("PENDING", checkpoint))
    /\ pc' = "loop"
    /\ UNCHANGED <<species_list, individuals, size, distances, t, max_t, checkpoint,
                   p_total, chosen, panic, initial_size, births, deaths, issued, steps,
                   first_run, made>>

\* worker.rs lines 35-50: the loop condition found false, COMPLETE is posted
\* and the handler returns
PostComplete ==
    /\ pc = "loop"
    /\ ~LoopCondition(t, max_t)
    /\ posted' = Append(posted, WorkerResponse("COMPLETE", EmptyCheckpoint))
    /\ pc' = "idle"
    /\ UNCHANGED <<species_list, individuals, size, distances, history, t, max_t, checkpoint,
                   p_total, chosen, panic, initial_size, births, deaths, issued, steps,
                   first_run, made>>

NextWorker ==
    PostInitialized \/ OnMessage \/ Step \/ IncrementTime \/ PostPending \/ PostComplete

SpecWorker == InitWorker /\ [][NextWorker]_vars

(***************************************************************************)
(* Individual::new on its own, called as tests::test_new_individual calls   *)
(* it, on arguments drawn from small sets                                   *)
(***************************************************************************)
MaxNewId == 3

TestSpecies == { DefaultSpecies, Inert, Mover, Basic, Grower, Fader }

TestCoords == { 0, 500, 999 }

InitIndividual ==
    /\ NoPopulation
    /\ pc = "test"
    /\ posted = <<>>
    /\ made = <<>>

\* line 517: let individual = Individual::new(id, species, x, y)
NewIndividual ==
    /\ pc = "test"
    /\ \E id \in 0..MaxNewId, species \in TestSpecies, x \in TestCoords, y \in TestCoords :
          made' = << [id |-> id, species |-> species, x_coord |-> x, y_coord |-> y,
                      individual |-> IndividualNew(id, species, x, y)] >>
    /\ UNCHANGED <<species_list, individuals, size, distances, history, t, max_t, pc,
                   checkpoint, p_total, chosen, panic, initial_size, births, deaths,
                   issued, steps, first_run, posted>>

SpecIndividual == InitIndividual /\ [][NewIndividual]_vars

(***************************************************************************)
(* Individual::distance on its own, on two individuals placed at           *)
(* coordinates drawn from a small set of values of [0, 1)                   *)
(***************************************************************************)
DistanceCoords == { 0, 10, 500, 510, 990 }

InitDistance ==
    /\ NoPopulation
    /\ pc = "test"
    /\ posted = <<>>
    /\ made = <<>>

\* self.distance(&other), and other.distance(&self)
MeasureDistance ==
    /\ pc = "test"
    /\ \E x1 \in DistanceCoords, y1 \in DistanceCoords,
          x2 \in DistanceCoords, y2 \in DistanceCoords :
          \E self \in { IndividualNew(0, DefaultSpecies, x1, y1) },
             other \in { IndividualNew(1, DefaultSpecies, x2, y2) } :
                made' = << [self |-> self, other |-> other,
                            delta_x |-> AxisDelta(self.x_coord, other.x_coord),
                            delta_y |-> AxisDelta(self.y_coord, other.y_coord),
                            distance |-> Distance(self, other),
                            reverse |-> Distance(other, self)] >>
    /\ UNCHANGED <<species_list, individuals, size, distances, history, t, max_t, pc,
                   checkpoint, p_total, chosen, panic, initial_size, births, deaths,
                   issued, steps, first_run, posted>>

SpecDistance == InitDistance /\ [][MeasureDistance]_vars

(***************************************************************************)
(* Properties                                                              *)
(***************************************************************************)

\* C1: when the total rate R = S_birth + S_death + S_move is 0 at a step, the
\* step ends the run cleanly: no weighted draw is attempted and nothing panics.
C1_ZeroRateEndsExhausted ==
    (steps > 0 /\ chosen.sums.p_total = 0) => (panic = "none" /\ ~chosen.panicked)

\* C2: after any sequence of steps with N births and M deaths,
\* size = initial_size + N - M, and size is never below 0.
C2_SizeBookkeeping ==
    /\ size = initial_size + births - deaths
    /\ size >= 0

C2_BirthsAndDeaths == births > 0 /\ deaths > 0 /\ size # initial_size

\* C3: increment_time never finds delta_t <= 0: the assertion delta_t > 0.0
\* holds for every value the random source can return.
C3_DeltaTStrictlyPositive == panic # "assert delta_t > 0.0"

\* C4: the checkpoint times of history are strictly increasing in history order.
C4_TimesStrictlyIncreasing ==
    \A i, j \in 1..Len(history) : i < j => history[i].time < history[j].time

\* C5: when simulate(max_t) returns, the last checkpoint of history has
\* time >= max_t and is the only checkpoint with time >= max_t.
C5_LastCheckpointAtHorizon ==
    pc = "done" =>
        /\ history[Len(history)].time >= max_t
        /\ \A i \in 1..(Len(history) - 1) : history[i].time < max_t

\* C6: two runs on the same species list and horizon (the code takes no seed:
\* nothing else is given to a run) end with the same checkpoint sequence.
C6_SameInputSameCheckpoints ==
    (first_run # <<>> /\ pc = "done") => history = first_run

\* an empty species list, a negative count, a negative kernel radius or std
MalformedInput(list) ==
    \/ list = <<>>
    \/ \E k \in 1..Len(list) :
          \/ list[k].c1 < 0
          \/ list[k].birth_radius_max < 0 \/ list[k].death_radius_max < 0
          \/ list[k].birth_std < 0 \/ list[k].death_std < 0

\* C7: a malformed species list is rejected by Population::new: no population
\* built from it is ever simulated.
C7_MalformedInputRejected == MalformedInput(species_list) => pc = "rejected"

\* C8: an id handed to an individual is never handed to another one.
C8_IdsNeverReused ==
    \A i, j \in 1..Len(issued) : i # j => issued[i] # issued[j]

C10_ZeroSumFallsBackToUniform ==
    ( /\ chosen.sums.p_total > 0
      /\ \/ chosen.event = "Birth" /\ chosen.sums.p_birth_sum = 0
         \/ chosen.event = "Death" /\ chosen.sums.p_death_sum = 0 )
    => ~chosen.panicked

\* the positions of inds holding an individual of species id `id`
OfSpecies(inds, id) == { i \in 1..Len(inds) : inds[i].species.id = id }

\* the number of elements of the set of positions S below or at i
RankIn(S, i) == Cardinality({ j \in S : j <= i })

\* xs and ys are the coordinates of the individuals at the positions S, in
\* the order of the positions
HoldsCoordsOf(entry, inds, S) ==
    /\ Len(entry[1]) = Cardinality(S)
    /\ Len(entry[2]) = Cardinality(S)
    /\ \A i \in S : /\ entry[1][RankIn(S, i)] = inds[i].x_coord
                    /\ entry[2][RankIn(S, i)] = inds[i].y_coord

UniqueSpeciesIds(list) ==
    \A a, b \in 1..Len(list) : a # b => list[a].id # list[b].id

\* C11: the checkpoint step() returns has one (x_coords, y_coords) entry per
\* species, in species_list order; entry k holds exactly the coordinates of the
\* live individuals of species id species_list[k].id; with unique species ids
\* the recorded coordinates are as many as size.
C11_CheckpointGroupsBySpecies ==
    pc = "stepped" =>
        /\ Len(checkpoint.species_individuals) = Len(species_list)
        /\ \A k \in 1..Len(species_list) :
              /\ Len(checkpoint.species_individuals[k]) = 2
              /\ HoldsCoordsOf(checkpoint.species_individuals[k], individuals,
                               OfSpecies(individuals, species_list[k].id))
        /\ UniqueSpeciesIds(species_list) =>
              SumTo([k \in 1..Len(species_list) |->
                        Len(checkpoint.species_individuals[k][1])],
                    Len(species_list)) = size

\* a checkpoint of a two-species run with individuals of the second species
C11_TwoSpeciesCheckpoint ==
    /\ pc = "stepped"
    /\ Len(species_list) = 2
    /\ Len(checkpoint.species_individuals[1][1]) = 2
    /\ Len(checkpoint.species_individuals[2][1]) = 1

\* C12: every checkpoint of history, the initial one with time 0 included, has
\* one coordinate entry per species; the initial one holds the c1 initial
\* individuals of each species.
C12_HistoryHoldsLiveIndividuals ==
    /\ \A i \in 1..Len(history) :
          Len(history[i].species_individuals) = Len(species_list)
    /\ history[1].time = 0
    /\ \A k \in 1..Len(species_list) :
          Len(history[1].species_individuals[k][1]) = AsUsize(species_list[k].c1)

\* the neighbour effect of the individual at position i for an event, from row
\* i of the current distance matrix
RowEffect(i, event) ==
    Mul(SumTo(Vec([j \in 1..size |->
                      WeightEntry(distances[i][j], Radius(individuals[i], event),
                                  Var(individuals[i], event))]), size),
        Effect(individuals[i], event))

FreshBirthRate(i) == individuals[i].species.b0 + RowEffect(i, "Birth")

FreshDeathRate(i) == individuals[i].species.d0 + RowEffect(i, "Death")

\* C13: a successful step() executes exactly one event: size, and the number of
\* individuals, change by exactly +1 or -1; the rate it returns is the total
\* rate R of the intensities the selection was made from.
C13_StepIsOneEvent ==
    [][ (pc = "loop" /\ pc' = "stepped") =>
            /\ size' = size + 1 \/ size' = size - 1
            /\ Len(individuals') = size'
            /\ births' + deaths' = births + deaths + 1
            /\ p_total' = chosen'.sums.p_total
            /\ \A rate \in { Vec([i \in 1..size |->
                                     FreshBirthRate(i) + FreshDeathRate(i)
                                        + individuals[i].species.mintegral]) } :
                  p_total' = SumTo(rate, size) ]_vars

\* a step of a population with birth, death and move rates has returned
C13_SteppedWithAllRates ==
    /\ pc = "stepped"
    /\ chosen.sums.p_birth_sum > 0
    /\ chosen.sums.p_death_sum > 0
    /\ chosen.sums.p_move_sum > 0
    /\ p_total = chosen.sums.p_birth_sum + chosen.sums.p_death_sum
                    + chosen.sums.p_move_sum

\* C14: step(), and the birth or death it executes, leaves t and history as
\* they are; t is changed by increment_time only, and history only by the
\* caller's push of the checkpoint step() returned.
C14_StepLeavesTimeAndHistory ==
    [][ /\ pc = "loop" => (t' = t /\ history' = history)
        /\ t' # t => (pc = "stepped" /\ pc' = "timed")
        /\ history' # history =>
              (pc = "timed" /\ pc' = "loop" /\ history' = Append(history, checkpoint)) ]_vars

\* a birth and a death have been executed at a time later than 0, with their
\* checkpoints pushed
C14_EventsAfterTimeAdvanced ==
    /\ pc = "stepped"
    /\ births > 0
    /\ deaths > 0
    /\ t > 0
    /\ Len(history) = steps

\* C15: t starts at 0 and no step() or increment_time(R) call decreases it.
C15_TimeNeverDecreases ==
    /\ t = 0
    /\ [][t' >= t]_vars

\* time has been advanced twice
C15_TimeAdvancedTwice ==
    /\ pc = "timed"
    /\ steps = 2
    /\ t > checkpoint.time
    /\ checkpoint.time > 0

\* C16: a step is executed only while t < max_t; once t >= max_t at the loop
\* head the run returns with no further step, time advance or push, and nothing
\* happens after it has returned; with max_t <= 0 no step is executed and
\* history holds the initial checkpoint only.
C16_StepsOnlyBeforeHorizon ==
    /\ [][ /\ steps' # steps => t < max_t
           /\ (pc = "loop" /\ t >= max_t) =>
                 /\ pc' = "done"
                 /\ UNCHANGED <<steps, t, history, individuals, size>>
           /\ pc = "done" => UNCHANGED vars ]_vars
    /\ [](max_t <= 0 => (steps = 0 /\ t = 0 /\ Len(history) = 1))

\* a run that has executed steps and returned at the horizon
C16_ReturnedAfterSteps ==
    /\ pc = "done"
    /\ steps > 0
    /\ max_t > 0
    /\ t >= max_t
    /\ Len(history) = 1 + steps

\* the position of the last message of msgs that is not PENDING, 0 when none
LastBoundary(msgs) ==
    LET S == { i \in 1..Len(msgs) : msgs[i].status # "PENDING" }
    IN IF S = {} THEN 0 ELSE CHOOSE i \in S : \A j \in S : j <= i

\* the stream is INITIALIZED, then per request PENDING messages and a COMPLETE,
\* the PENDING messages of the request in progress carrying its checkpoints
StreamWellFormed ==
    /\ pc # "main" => (Len(posted) >= 1 /\ posted[1].status = "INITIALIZED")
    /\ pc = "main" => posted = <<>>
    /\ \A i \in 2..Len(posted) : posted[i].status \in { "PENDING", "COMPLETE" }
    /\ \A i \in 1..Len(posted) :
          posted[i].status # "PENDING" => posted[i].checkpoint = EmptyCheckpoint
    /\ pc \in { "loop", "stepped", "timed", "panicked" } =>
          /\ Len(posted) - LastBoundary(posted) = Len(history) - 1
          /\ \A i \in 1..(Len(history) - 1) :
                posted[LastBoundary(posted) + i].checkpoint = history[i + 1]
    /\ pc = "idle" => posted[Len(posted)].status # "PENDING"

\* C17: the worker posts one INITIALIZED before handling any request; per
\* request it posts the checkpoint of every step as PENDING, in step order,
\* and then one COMPLETE with an empty payload: a request whose handling has
\* ended has its COMPLETE as the last message.
C17_MessageStreamProtocol ==
    /\ StreamWellFormed
    /\ pc = "panicked" => posted[Len(posted)].status = "COMPLETE"

\* C18: history only grows by appended checkpoints, one per executed step:
\* whenever the loop is at its head, has returned or was aborted, history holds
\* 1 + k checkpoints, k the number of events executed so far.
C18_OneCheckpointPerExecutedStep ==
    pc \in { "loop", "done", "panicked" } =>
        /\ Len(history) = 1 + births + deaths
        /\ history[1] = [time |-> 0, species_individuals |-> <<>>]

\* C19: no operation changes the coordinates of a live individual: an
\* individual found before and after a step of the run is where it was, also
\* when the move rates are positive.
C19_NoIndividualMoves ==
    [][ \A i \in 1..Len(individuals), j \in 1..Len(individuals') :
            individuals[i].id = individuals'[j].id =>
                /\ individuals'[j].x_coord = individuals[i].x_coord
                /\ individuals'[j].y_coord = individuals[i].y_coord ]_vars

\* an event was chosen while the move rates were positive, and individuals
\* outlived it
C19_SurvivorsUnderMoveRate ==
    /\ pc = "stepped"
    /\ chosen.sums.p_move_sum > 0
    /\ size >= 2
    /\ \E i \in 1..Len(individuals) : individuals[i].p_move > 0

\* C20: Individual::new(id, species, x, y) returns an individual whose id,
\* species and coordinates are the arguments and whose three intensities and
\* two neighbour weights are 0.
C20_NewIndividualFields ==
    \A k \in 1..Len(made) :
        /\ made[k].individual.id = made[k].id
        /\ made[k].individual.species = made[k].species
        /\ made[k].individual.x_coord = made[k].x_coord
        /\ made[k].individual.y_coord = made[k].y_coord
        /\ made[k].individual.p_birth = 0
        /\ made[k].individual.p_death = 0
        /\ made[k].individual.p_move = 0
        /\ made[k].individual.birth_neighbor_weight = 0
        /\ made[k].individual.death_neighbor_weight = 0
        /\ DOMAIN made[k].individual =
              { "id", "species", "x_coord", "y_coord", "p_birth", "p_death", "p_move",
                "birth_neighbor_weight", "death_neighbor_weight" }

\* an individual made from a non-zero id, different non-zero coordinates and a
\* species with non-zero rates
C20_MadeFromNonZeroArguments ==
    /\ Len(made) = 1
    /\ made[1].id = 2
    /\ made[1].x_coord = 500
    /\ made[1].y_coord = 999
    /\ made[1].species.b0 > 0
    /\ made[1].species.d0 > 0
    /\ made[1].individual.id = 2

\* C21: after construction and after every birth and death the distance matrix
\* is size x size, and for all positions i # j its entry [i][j] is the toroidal
\* distance of individuals[i] and individuals[j], and equals the entry [j][i].
C21_DistancesMatchIndividuals ==
    /\ Len(distances) = Len(individuals)
    /\ \A i \in 1..Len(individuals) :
          /\ Len(distances[i]) = Len(individuals)
          /\ \A j \in 1..Len(individuals) :
                i # j => /\ distances[i][j] = Distance(individuals[i], individuals[j])
                         /\ distances[i][j] = distances[j][i]

\* individuals at different places after a birth and a death
C21_MatrixAfterBirthAndDeath ==
    /\ births > 0
    /\ deaths > 0
    /\ size >= 2
    /\ \E i, j \in 1..size : i # j /\ distances[i][j] > 0

\* the neighbour effect of individuals[i] for an event when exactly the other
\* individuals within its radius contribute, each at its toroidal distance
EffectOfOthers(inds, i, event) ==
    LET others == Vec([j \in 1..Len(inds) |->
                      IF j = i THEN 0
                      ELSE WeightEntry(Distance(inds[i], inds[j]),
                                       Radius(inds[i], event), Var(inds[i], event))])
    IN Mul(SumTo(others, Len(inds)), Effect(inds[i], event))

\* C22: individual j contributes to the birth (death) neighbour effect of
\* individual i iff j # i, their toroidal distance is below i's birth (death)
\* radius and i's birth (death) std is not 0: the effects step() computes are
\* those of the other individuals alone, for any kernel radius.
C22_OnlyOthersContribute ==
    pc = "loop" =>
        \A inds \in { Refresh(individuals, distances, size) } :
            \A i \in 1..Len(inds) :
                /\ inds[i].birth_neighbor_weight = EffectOfOthers(inds, i, "Birth")
                /\ inds[i].death_neighbor_weight = EffectOfOthers(inds, i, "Death")

\* the individual at position i was pushed by the birth just executed
JustBorn(i) == chosen.event = "Birth" /\ i = Len(individuals)

\* C23: an individual whose kernel std for an event kind is 0, or whose norm
\* for it evaluates to 0, has neighbour effect 0 for that kind and so the base
\* rate alone as intensity; no division by zero is performed on the way.
C23_UndefinedNormGivesBaseRate ==
    pc = "stepped" =>
        \A i \in 1..Len(individuals) :
            LET x == individuals[i]
            IN ~JustBorn(i) =>
                /\ (x.species.birth_std = 0
                       \/ Norm(Radius(x, "Birth"), Var(x, "Birth")) = 0) =>
                      (x.birth_neighbor_weight = 0 /\ x.p_birth = x.species.b0)
                /\ (x.species.death_std = 0
                       \/ Norm(Radius(x, "Death"), Var(x, "Death")) = 0) =>
                      (x.death_neighbor_weight = 0 /\ x.p_death = x.species.d0)

\* after a step: an individual of death std 0 and one whose death norm is 0
\* with a non-zero std, each with a non-zero effect coefficient and another
\* individual inside its death radius
C23_NeighboursInsideUndefinedKernel ==
    /\ pc = "stepped"
    /\ \E i, j, k \in 1..Len(individuals) :
          /\ i # k /\ j # k /\ ~JustBorn(i) /\ ~JustBorn(j)
          /\ individuals[i].species.death_std = 0
          /\ individuals[i].species.d1 > 0
          /\ distances[i][k] < individuals[i].species.death_radius_max
          /\ individuals[j].species.death_std > 0
          /\ individuals[j].species.d1 > 0
          /\ Norm(Radius(individuals[j], "Death"), Var(individuals[j], "Death")) = 0
          /\ distances[j][k] < individuals[j].species.death_radius_max

\* C24: the intensities choose_event works on in a step are, for every live
\* individual, b0 + birth effect, d0 + death effect and mintegral, the effects
\* being those of the distance matrix as it is when the step starts; this
\* holds for the sums the selection uses and for each individual's fields.
C24_SelectionUsesFreshIntensities ==
    [][ (pc = "loop" /\ steps' = steps + 1) =>
            \A birth \in { Vec([i \in 1..size |-> FreshBirthRate(i)]) },
               death \in { Vec([i \in 1..size |-> FreshDeathRate(i)]) } :
                /\ chosen'.sums.p_birth_sum = SumTo(birth, size)
                /\ chosen'.sums.p_death_sum = SumTo(death, size)
                /\ chosen'.sums.p_move_sum =
                      SumTo(Vec([i \in 1..size |-> individuals[i].species.mintegral]), size)
                /\ chosen'.event # "Death" =>
                      \A i \in 1..size :
                          /\ individuals'[i].p_birth = birth[i]
                          /\ individuals'[i].p_death = death[i]
                          /\ individuals'[i].p_move = individuals[i].species.mintegral ]_vars

\* an individual born in an earlier step went through a later selection with a
\* positive neighbour effect in its birth rate
C24_EarlierChildHasFreshRate ==
    /\ pc = "stepped"
    /\ steps >= 2
    /\ \E i \in 1..Len(individuals) :
          /\ ~JustBorn(i)
          /\ individuals[i].id >= initial_size
          /\ individuals[i].birth_neighbor_weight > 0
          /\ individuals[i].p_birth =
                individuals[i].species.b0 + individuals[i].birth_neighbor_weight

\* the ids of a vector of individuals, in order
IdsOf(inds) == Vec([i \in 1..Len(inds) |-> inds[i].id])

\* C25: when the chosen event type has a positive rate sum, the position
\* choose_event returns is a position of the live vector, the individual there
\* has a positive intensity for that type, and the birth or death is executed
\* on that individual: the child has its species, or it is the one removed.
C25_ActorHasPositiveIntensity ==
    [][ (pc = "loop" /\ pc' = "stepped") =>
            LET k == chosen'.individual_id
            IN /\ k \in 1..size
               /\ (chosen'.event = "Birth" /\ chosen'.sums.p_birth_sum > 0) =>
                     /\ FreshBirthRate(k) > 0
                     /\ individuals'[size + 1].species = individuals[k].species
                     /\ IdsOf(individuals') = Append(IdsOf(individuals), MaxId(individuals) + 1)
               /\ (chosen'.event = "Death" /\ chosen'.sums.p_death_sum > 0) =>
                     /\ FreshDeathRate(k) > 0
                     /\ IdsOf(individuals') = RemoveAt(IdsOf(individuals), k) ]_vars

\* a birth was executed on one individual while another one, of birth rate 0,
\* was passed over
C25_ZeroRateIndividualPassedOver ==
    /\ pc = "stepped"
    /\ chosen.event = "Birth"
    /\ chosen.sums.p_birth_sum > 0
    /\ \E i \in 1..Len(individuals) :
          /\ ~JustBorn(i)
          /\ i # chosen.individual_id
          /\ individuals[i].p_birth = 0

\* the position before a removal at position k of what is at position i after it
BeforeRemoval(i, k) == IF i < k THEN i ELSE i + 1

\* C26: a death removes exactly the victim: the survivors keep their id,
\* species, position and order, the distances among them are unchanged, and
\* the matrix has lost the victim's row and column and nothing else.
C26_DeathRemovesOnlyVictim ==
    [][ (pc = "loop" /\ deaths' = deaths + 1) =>
            LET k == chosen'.individual_id
            IN /\ Len(individuals') = Len(individuals) - 1
               /\ Len(distances') = Len(individuals')
               /\ \A i \in 1..Len(individuals') :
                     LET was == individuals[BeforeRemoval(i, k)]
                     IN /\ individuals'[i].id = was.id
                        /\ individuals'[i].species = was.species
                        /\ individuals'[i].x_coord = was.x_coord
                        /\ individuals'[i].y_coord = was.y_coord
                        /\ Len(distances'[i]) = Len(individuals')
                        /\ \A j \in 1..Len(individuals') :
                              distances'[i][j] =
                                 distances[BeforeRemoval(i, k)][BeforeRemoval(j, k)] ]_vars

\* the first of three individuals has died, the two survivors at different places
C26_FirstOfThreeDied ==
    /\ pc = "stepped"
    /\ chosen.event = "Death"
    /\ chosen.individual_id = 1
    /\ size = 2
    /\ individuals[1].id # individuals[2].id
    /\ distances[1][2] > 0

\* C27: a birth appends exactly one child, of the parent's species; the
\* individuals that were there keep their id, species and position, the
\* distances among them are unchanged, and the child's row and column hold its
\* toroidal distance to each of them.
C27_BirthAppendsOnlyChild ==
    [][ (pc = "loop" /\ births' = births + 1) =>
            LET n == Len(individuals)
                child == individuals'[n + 1]
            IN /\ Len(individuals') = n + 1
               /\ Len(distances') = n + 1
               /\ child.species = individuals[chosen'.individual_id].species
               /\ \A i \in 1..n :
                     /\ individuals'[i].id = individuals[i].id
                     /\ individuals'[i].species = individuals[i].species
                     /\ individuals'[i].x_coord = individuals[i].x_coord
                     /\ individuals'[i].y_coord = individuals[i].y_coord
                     /\ Len(distances'[i]) = n + 1
                     /\ \A j \in 1..n : distances'[i][j] = distances[i][j]
                     /\ distances'[i][n + 1] = Distance(individuals[i], child)
                     /\ distances'[n + 1][i] = Distance(individuals[i], child)
               /\ Len(distances'[n + 1]) = n + 1 ]_vars

\* a child was placed away from its parent, with a third individual present
C27_ChildAwayFromParent ==
    /\ pc = "stepped"
    /\ chosen.event = "Birth"
    /\ size >= 3
    /\ distances[size][chosen.individual_id] > 0
    /\ individuals[size].species = individuals[chosen.individual_id].species

\* C28: every live individual's position satisfies 0 <= x < 1 and 0 <= y < 1
\* in every reachable state.
C28_PositionsInUnitSquare ==
    \A i \in 1..Len(individuals) :
        /\ 0 <= individuals[i].x_coord /\ individuals[i].x_coord < ONE
        /\ 0 <= individuals[i].y_coord /\ individuals[i].y_coord < ONE

\* C29: for positions in [0, 1) each axis delta of Individual::distance is
\* min(|d|, 1 - |d|) and lies in [0, 0.5]: 0.01 against 0.99 gives 0.02, a
\* difference of 0.5 gives 0.5; the distance is the same in both directions
\* and is 0 for equal positions.
C29_ToroidalDistance ==
    \A k \in 1..Len(made) :
        LET m == made[k]
            dx == Abs(m.self.x_coord - m.other.x_coord)
            dy == Abs(m.self.y_coord - m.other.y_coord)
        IN /\ 0 <= m.delta_x /\ m.delta_x <= 500
           /\ 0 <= m.delta_y /\ m.delta_y <= 500
           /\ m.delta_x = (IF dx <= 500 THEN dx ELSE ONE - dx)
           /\ m.delta_y = (IF dy <= 500 THEN dy ELSE ONE - dy)
           /\ ({ m.self.x_coord, m.other.x_coord } = { 10, 990 }) => m.delta_x = 20
           /\ dx = 500 => m.delta_x = 500
           /\ m.distance = m.reverse
           /\ m.distance >= 0
           /\ (dx = 0 /\ dy = 0) => m.distance = 0
           /\ (m.delta_y = 0 /\ m.delta_x = 500) => m.distance = 500

\* the distance of x = 0.01 and x = 0.99 was measured, the y's 0.5 apart
C29_MeasuredAcrossTheSeam ==
    /\ Len(made) = 1
    /\ made[1].self.x_coord = 10
    /\ made[1].other.x_coord = 990
    /\ made[1].delta_x = 20
    /\ made[1].delta_y = 500
    /\ made[1].distance > 0

\* C30: the time advance of an event precedes its snapshot: the checkpoint
\* pushed for an event carries the time after the event's delta_t was added,
\* which is the value of t when the push is done.
C30_CheckpointCarriesAdvancedTime ==
    (pc = "loop" /\ Len(history) > 1) => history[Len(history)].time = t

\* C31: the ids of the live individuals are strictly increasing in vector
\* order, hence pairwise distinct; after construction they are 0..n-1; and
\* looking any live individual up by value gives its own position.
C31_IdsStrictlyIncreasing ==
    /\ \A i, j \in 1..Len(individuals) :
          i < j => individuals[i].id < individuals[j].id
    /\ steps = 0 => \A i \in 1..Len(individuals) : individuals[i].id = i - 1
    /\ \A i \in 1..Len(individuals) :
          /\ Position(individuals, individuals[i]) = i
          /\ \A j \in 1..Len(individuals) : individuals[j] = individuals[i] => j = i

\* after a death before the end of the vector and a later birth, the ids have
\* a gap and two individuals of one species stand at the same place
C31_IdsWithGapAndTwins ==
    /\ births > 0
    /\ deaths > 0
    /\ \E i \in 1..Len(individuals) : individuals[i].id > i - 1
    /\ \E i, j \in 1..Len(individuals) :
          /\ i # j
          /\ individuals[i].species = individuals[j].species
          /\ individuals[i].x_coord = individuals[j].x_coord
          /\ individuals[i].y_coord = individuals[j].y_coord

\* C32: the size field is the number of individuals and the number of rows of
\* the distance matrix, every row has size entries, and row i is the row of
\* individuals[i]: its entries off the diagonal are the distances from
\* individuals[i], its diagonal entry the 1.0 it was created with.
C32_SizeIsEveryDimension ==
    /\ size = Len(individuals)
    /\ size = Len(distances)
    /\ \A i \in 1..size :
          /\ Len(distances[i]) = size
          /\ distances[i][i] = ONE
          /\ \A j \in (1..size) \ { i } :
                distances[i][j] = Distance(individuals[i], individuals[j])

\* the matrix has grown and shrunk and is back at its first dimension, with
\* another individual in its last row
C32_MatrixGrownAndShrunk ==
    /\ births > 0
    /\ deaths > 0
    /\ size = initial_size
    /\ size >= 2
    /\ individuals[size].id >= initial_size
    /\ Len(distances[size]) = size

====
